---- MODULE Spec2Model ----
(***************************************************************************)
(* Model of the Voting contract (contract/Voting.sol): one deployment of   *)
(* the contract, the vote transactions that callers submit to it and that  *)
(* the chain executes one at a time in an order of its own choosing, and   *)
(* the read-only calls getVotes and hasVoted; and of the browser client     *)
(* (the React component App): its state, the wallet it talks to, and its   *)
(* asynchronous operations, each a sequence of steps separated by awaits.  *)
(*                                                                         *)
(* A transaction is atomic on the EVM: a failed require reverts every      *)
(* write of the call, so an execution of vote is one step whose result is  *)
(* either the storage after line 20 or the storage untouched.              *)
(* keccak256 is taken to be collision free on the names used, so the       *)
(* comparison of line 25 is string equality.  votes[candidate]++ is        *)
(* checked uint256 arithmetic; a counter is bounded by the number of       *)
(* addresses, so the overflow revert is unreachable and is not modelled.   *)
(***************************************************************************)
EXTENDS Integers, Sequences, FiniteSets, Bags, TLC

\* ---------------------------------------------------------------- bounds
NumVoters == 2
MaxCands == 2
MaxPending == 2
MaxOps == 2

\* the addresses that send transactions; 0 stands for the zero address
Voters == 1..NumVoters

\* the address that deploys: the default signer of the factory in
\* script/deploy.js, the first account; the addresses are interchangeable
Deployers == {1}

\* the strings used as names: two of the candidate names of script/deploy.js
\* line 5; a name is a candidate or not according to the list deployed
Names == {"Alice", "Bob"}

\* the candidate lists a deployment may pass: empty, with duplicates, any order
RECURSIVE SeqsUpTo(_)
SeqsUpTo(n) ==
    IF n = 0 THEN {<<>>}
    ELSE LET shorter == SeqsUpTo(n - 1)
         IN  shorter \cup {Append(s, x) : s \in {t \in shorter : Len(t) = n - 1}, x \in Names}

CandidateLists == SeqsUpTo(MaxCands)

\* the two require messages of vote
AlreadyVoted == "Already voted!"
InvalidCandidate == "Invalid candidate!"

VARIABLES
    deployed,        \* the contract exists on the chain
    admin,           \* address public admin
    hasVoted,        \* mapping(address => bool) public hasVoted
    votes,           \* mapping(string => uint256) public votes
    candidates,      \* string[] public candidates
    pending,         \* vote transactions submitted and not yet executed: <<sender, candidate>> -> how many
    deployArgs,      \* the sender and the argument of the deployment transaction
    last,            \* the last call the chain executed, with its outcome
    accepted,        \* history: per address, the number of its votes that did not revert
    acceptedFor,     \* history: per name, the number of votes naming it that did not revert
    app,             \* the client: the useState values of App
    wallet,          \* the wallet: the account it exposes to the page (0: none) and its chain
    ops,             \* the client: its asynchronous operations in flight, each at an await
    listening        \* the client: init has registered the accountsChanged/chainChanged handlers

\* the variables of the client and its wallet
client == <<app, wallet, ops, listening>>

vars == <<deployed, admin, hasVoted, votes, candidates, pending, deployArgs, last,
          accepted, acceptedFor, app, wallet, ops, listening>>

Txs == Voters \X Names

\* ------------------------------------------------------------ the contract

\* the contract's storage as one value
Storage ==
    [admin |-> admin, hasVoted |-> hasVoted, votes |-> votes, candidates |-> candidates]

\* a failed require: the message, and the storage as it was before the call
Revert(reason) == [status |-> reason, store |-> Storage]

\* the loop of validCandidate from index i (1-based) on
RECURSIVE validCandidateFrom(_, _)
validCandidateFrom(i, name) ==
    IF i > Len(candidates) THEN FALSE
    ELSE IF candidates[i] = name THEN TRUE
    ELSE validCandidateFrom(i + 1, name)

\* variant: line 25 compares candidates[i] with itself, so any entry matches
validCandidate_selfCompare(name) == Len(candidates) > 0

\* variant: line 29 returns true, so a name that matches no entry is valid
validCandidate_defaultTrue(name) == TRUE

validCandidate(name) == validCandidateFrom(1, name)

\* variant: the constructor also marks the deployer as having voted
constructor_adminVoted(sender, _candidates) ==
    [Storage EXCEPT !.admin = sender, !.candidates = _candidates,
                    !.hasVoted[sender] = TRUE]

\* constructor(string[] memory _candidates), called by sender on fresh (all-zero) storage
constructor(sender, _candidates) ==
    [Storage EXCEPT !.admin = sender, !.candidates = _candidates]

\* variant: the require of line 16 is missing
vote_noVotedCheck(sender, candidate) ==
    IF ~validCandidate(candidate) THEN Revert(InvalidCandidate)
    ELSE [status |-> "ok",
          store  |-> [Storage EXCEPT !.votes[candidate] = @ + 1,
                                     !.hasVoted[sender] = TRUE]]

\* variant: the requires of lines 16 and 17 are in the other order
vote_checksSwapped(sender, candidate) ==
    IF ~validCandidate(candidate) THEN Revert(InvalidCandidate)
    ELSE IF hasVoted[sender] THEN Revert(AlreadyVoted)
    ELSE [status |-> "ok",
          store  |-> [Storage EXCEPT !.votes[candidate] = @ + 1,
                                     !.hasVoted[sender] = TRUE]]

\* variant: line 20 is missing
vote_noFlagSet(sender, candidate) ==
    IF hasVoted[sender] THEN Revert(AlreadyVoted)
    ELSE IF ~validCandidate(candidate) THEN Revert(InvalidCandidate)
    ELSE [status |-> "ok",
          store  |-> [Storage EXCEPT !.votes[candidate] = @ + 1]]

\* variant: line 19 counts for candidates[0] instead of the name voted for
vote_countsFirstCandidate(sender, candidate) ==
    IF hasVoted[sender] THEN Revert(AlreadyVoted)
    ELSE IF ~validCandidate(candidate) THEN Revert(InvalidCandidate)
    ELSE [status |-> "ok",
          store  |-> [Storage EXCEPT !.votes[candidates[1]] = @ + 1,
                                     !.hasVoted[sender] = TRUE]]

\* variant: line 16 tests the flag of admin instead of the flag of msg.sender
vote_checksAdminFlag(sender, candidate) ==
    IF hasVoted[admin] THEN Revert(AlreadyVoted)
    ELSE IF ~validCandidate(candidate) THEN Revert(InvalidCandidate)
    ELSE [status |-> "ok",
          store  |-> [Storage EXCEPT !.votes[candidate] = @ + 1,
                                     !.hasVoted[sender] = TRUE]]

\* variant: an unknown name is added to the candidate list instead of rejected
vote_registersCandidate(sender, candidate) ==
    IF hasVoted[sender] THEN Revert(AlreadyVoted)
    ELSE [status |-> "ok",
          store  |-> [Storage EXCEPT !.votes[candidate] = @ + 1,
                                     !.hasVoted[sender] = TRUE,
                                     !.candidates = IF validCandidate(candidate) THEN @
                                                    ELSE Append(@, candidate)]]

\* variant: the require of line 17 is missing
vote_noCandidateCheck(sender, candidate) ==
    IF hasVoted[sender] THEN Revert(AlreadyVoted)
    ELSE [status |-> "ok",
          store  |-> [Storage EXCEPT !.votes[candidate] = @ + 1,
                                     !.hasVoted[sender] = TRUE]]

\* variant: the flag is written first and an unknown name returns instead of reverting
vote_flagBeforeCheck(sender, candidate) ==
    IF hasVoted[sender] THEN Revert(AlreadyVoted)
    ELSE IF ~validCandidate(candidate)
         THEN [status |-> InvalidCandidate,
               store  |-> [Storage EXCEPT !.hasVoted[sender] = TRUE]]
         ELSE [status |-> "ok",
               store  |-> [Storage EXCEPT !.votes[candidate] = @ + 1,
                                          !.hasVoted[sender] = TRUE]]

\* variant: line 19 adds two
vote_countsTwice(sender, candidate) ==
    IF hasVoted[sender] THEN Revert(AlreadyVoted)
    ELSE IF ~validCandidate(candidate) THEN Revert(InvalidCandidate)
    ELSE [status |-> "ok",
          store  |-> [Storage EXCEPT !.votes[candidate] = @ + 2,
                                     !.hasVoted[sender] = TRUE]]

\* variant: the count is incremented inside the loop, once per matching entry
vote_countsPerEntry(sender, candidate) ==
    IF hasVoted[sender] THEN Revert(AlreadyVoted)
    ELSE IF ~validCandidate(candidate) THEN Revert(InvalidCandidate)
    ELSE [status |-> "ok",
          store  |-> [Storage EXCEPT
                        !.votes[candidate] =
                            @ + Cardinality({i \in DOMAIN candidates : candidates[i] = candidate}),
                        !.hasVoted[sender] = TRUE]]

\* variant: the require of line 16 is skipped when msg.sender is admin
vote_adminExempt(sender, candidate) ==
    IF sender # admin /\ hasVoted[sender] THEN Revert(AlreadyVoted)
    ELSE IF ~validCandidate(candidate) THEN Revert(InvalidCandidate)
    ELSE [status |-> "ok",
          store  |-> [Storage EXCEPT !.votes[candidate] = @ + 1,
                                     !.hasVoted[sender] = TRUE]]

\* function vote(string memory candidate), called by sender
vote(sender, candidate) ==
    IF hasVoted[sender] THEN Revert(AlreadyVoted)
    ELSE IF ~validCandidate(candidate) THEN Revert(InvalidCandidate)
    ELSE [status |-> "ok",
          store  |-> [Storage EXCEPT !.votes[candidate] = @ + 1,
                                     !.hasVoted[sender] = TRUE]]

\* function getVotes(string memory candidate)
getVotes(candidate) == votes[candidate]

\* the getter of the public mapping hasVoted
hasVotedGetter(voter) == hasVoted[voter]

\* ----------------------------------------------------------------- steps

\* the vote transactions of sender v that are pending
PendingOf(v) ==
    LET RECURSIVE Sum(_)
        Sum(S) == IF S = {} THEN 0
                  ELSE LET n == CHOOSE x \in S : TRUE IN pending[<<v, n>>] + Sum(S \ {n})
    IN  Sum(Names)

\* prev: for a vote, the outcome of the call executed just before it when that
\* call was a vote of the same sender, "" otherwise
NoCall == [op |-> "none", sender |-> 0, name |-> "", who |-> 0,
           status |-> "", count |-> 0, flag |-> FALSE, prev |-> ""]

PendingTotal ==
    LET RECURSIVE Sum(_)
        Sum(S) == IF S = {} THEN 0
                  ELSE LET t == CHOOSE x \in S : TRUE IN pending[t] + Sum(S \ {t})
    IN  Sum(Txs)

\* the chain ids with an entry in CONTRACT_ADDRESSES, and one without
Supported == {"0xaa36a7", "0x7a69"}
Chains == {"0x7a69", "0x1"}

\* the useState initial values; 0 and "" stand for null
\* the accounts the wallet holds
Accounts == {1, 2}

AppInit == [account |-> 0, contract |-> 0, selectedCandidate |-> "",
            currentNetwork |-> "", isLoading |-> FALSE, error |-> "",
            hasVoted |-> FALSE]

Init ==
    /\ app = AppInit
    /\ wallet = [account |-> 0, chain |-> "0x7a69"]
    /\ ops = EmptyBag
    /\ listening = FALSE
    /\ deployed = FALSE
    /\ admin = 0
    /\ hasVoted = [v \in Voters |-> FALSE]
    /\ votes = [n \in Names |-> 0]
    /\ candidates = <<>>
    /\ pending = [t \in Txs |-> 0]
    /\ deployArgs = [sender |-> 0, candidates |-> <<>>]
    /\ last = NoCall
    /\ accepted = [v \in Voters |-> 0]
    /\ acceptedFor = [n \in Names |-> 0]

\* the deployment transaction: Voting.deploy(candidates) of script/deploy.js
Deploy(sender, _candidates) ==
    /\ ~deployed
    /\ LET s == constructor(sender, _candidates)
       IN  /\ admin' = s.admin
           /\ hasVoted' = s.hasVoted
           /\ votes' = s.votes
           /\ candidates' = s.candidates
    /\ deployed' = TRUE
    /\ deployArgs' = [sender |-> sender, candidates |-> _candidates]
    /\ last' = [NoCall EXCEPT !.op = "constructor", !.sender = sender, !.status = "ok"]
    /\ UNCHANGED <<pending, accepted, acceptedFor>>
    /\ UNCHANGED client

\* a caller sends a vote transaction; it waits for the chain to order it
SubmitVote(sender, candidate) ==
    /\ deployed
    /\ PendingTotal < MaxPending
    /\ pending' = [pending EXCEPT ![<<sender, candidate>>] = @ + 1]
    /\ UNCHANGED <<deployed, admin, hasVoted, votes, candidates, deployArgs, last,
                   accepted, acceptedFor>>
    /\ UNCHANGED client

\* the chain executes one of the pending vote transactions, whichever it picks
ExecuteVote(sender, candidate) ==
    /\ deployed
    /\ pending[<<sender, candidate>>] > 0
    /\ pending' = [pending EXCEPT ![<<sender, candidate>>] = @ - 1]
    /\ LET r == vote(sender, candidate)
       IN  /\ admin' = r.store.admin
           /\ hasVoted' = r.store.hasVoted
           /\ votes' = r.store.votes
           /\ candidates' = r.store.candidates
           /\ last' = [NoCall EXCEPT !.op = "vote", !.sender = sender,
                                     !.name = candidate, !.status = r.status,
                                     !.prev = IF last.op = "vote" /\ last.sender = sender
                                              THEN last.status ELSE ""]
           /\ accepted' = IF r.status = "ok"
                          THEN [accepted EXCEPT ![sender] = @ + 1] ELSE accepted
           /\ acceptedFor' = IF r.status = "ok"
                             THEN [acceptedFor EXCEPT ![candidate] = @ + 1] ELSE acceptedFor
    /\ UNCHANGED <<deployed, deployArgs>>
    /\ UNCHANGED client

\* variant: getVotes is not a view and counts the call as a vote
CallGetVotes_counts(candidate) ==
    /\ deployed
    /\ last' = [NoCall EXCEPT !.op = "getVotes", !.name = candidate,
                              !.status = "ok", !.count = getVotes(candidate)]
    /\ votes' = [votes EXCEPT ![candidate] = @ + 1]
    /\ UNCHANGED <<deployed, admin, hasVoted, candidates, pending, deployArgs,
                   accepted, acceptedFor>>
    /\ UNCHANGED client

\* a read-only call of getVotes
CallGetVotes(candidate) ==
    /\ deployed
    /\ last' = [NoCall EXCEPT !.op = "getVotes", !.name = candidate,
                              !.status = "ok", !.count = getVotes(candidate)]
    /\ UNCHANGED <<deployed, admin, hasVoted, votes, candidates, pending, deployArgs,
                   accepted, acceptedFor>>
    /\ UNCHANGED client

\* a read-only call of the hasVoted getter
CallHasVoted(voter) ==
    /\ deployed
    /\ last' = [NoCall EXCEPT !.op = "hasVoted", !.who = voter,
                              !.status = "ok", !.flag = hasVotedGetter(voter)]
    /\ UNCHANGED <<deployed, admin, hasVoted, votes, candidates, pending, deployArgs,
                   accepted, acceptedFor>>
    /\ UNCHANGED client

Next ==
    \/ \E s \in Deployers, l \in CandidateLists : Deploy(s, l)
    \/ \E s \in Voters, c \in Names : SubmitVote(s, c)
    \/ \E s \in Voters, c \in Names : ExecuteVote(s, c)
    \/ \E c \in Names : CallGetVotes(c)
    \/ \E v \in Voters : CallHasVoted(v)

Spec == Init /\ [][Next]_vars

\* ------------------------------------------------------------- the client
\* App of the front end.  An operation in flight is a record: the function
\* that runs (fn), the await it is suspended at (pc), the address of its signer
\* (addr), the candidate it votes for (cand) and the caller that awaits it (by).
\* The wallet requests of connectWallet up to getNetwork resolve together, in
\* one step that reads the wallet once; fetchVotes' reads resolve together.
\* The tallies the client displays (votes) are write-only and left out.
\* The wallet's chain is fixed while the page lives: the chainChanged handler
\* (lines 54-56) reloads the page.  switchToSepolia and switchToLocalHardhat
\* are never called: their buttons (line 331) are rendered only for a network
\* that is in NETWORK_INFO and is neither of its two keys.

Op(fn, pc, addr, cand, by) ==
    [fn |-> fn, pc |-> pc, addr |-> addr, cand |-> cand, by |-> by]

\* the effect that runs on mount: init, suspended at the eth_accounts request
InitOp == Op("init", "eth_accounts", 0, "", "")

Spawn(o) == ops (+) SetToBag({o})
Retire(o) == ops (-) SetToBag({o})
Move(o, n) == (ops (-) SetToBag({o})) (+) SetToBag({n})
InFlight == BagToSet(ops)

\* the operation o once it has called fetchVotes: its locals are dead
Fetching(o) == Op(o.fn, "fetchVotes", 0, "", o.by)

\* the vote operation whose tx.wait has its receipt: its locals are dead
Mined(status) == Op("vote", IF status = "ok" THEN "confirmed" ELSE "reverted", 0, "", "")

\* the candidate list deployed for the client: the client's own list (line 27)
ClientCandidates == <<"Alice", "Bob">>

\* the page is loaded against a deployed contract nobody has voted in yet
InitClient ==
    /\ deployed = TRUE
    /\ admin = 1
    /\ hasVoted = [v \in Voters |-> FALSE]
    /\ votes = [n \in Names |-> 0]
    /\ candidates = ClientCandidates
    /\ pending = [t \in Txs |-> 0]
    /\ deployArgs = [sender |-> 1, candidates |-> ClientCandidates]
    /\ last = [NoCall EXCEPT !.op = "constructor", !.sender = 1, !.status = "ok"]
    /\ accepted = [v \in Voters |-> 0]
    /\ acceptedFor = [n \in Names |-> 0]
    /\ app = AppInit
    /\ wallet \in [account : Accounts \cup {0}, chain : Chains]
    /\ ops = SetToBag({InitOp})
    /\ listening = FALSE

ledger == <<deployed, admin, hasVoted, votes, candidates, pending, deployArgs, last,
            accepted, acceptedFor>>

\* an operation returns to its caller: init registers its handlers once the
\* connectWallet it awaits has returned
Finish(o) ==
    /\ ops' = Retire(o)
    /\ listening' = (listening \/ o.by = "init")

\* init: eth_accounts resolves; with an account exposed, init calls connectWallet
InitAccountsResolve(o) ==
    /\ o \in InFlight /\ o.fn = "init" /\ o.pc = "eth_accounts"
    /\ IF wallet.account # 0
       THEN /\ app' = [app EXCEPT !.isLoading = TRUE, !.error = ""]
            /\ ops' = Move(o, Op("connectWallet", "signer", 0, "", "init"))
            /\ UNCHANGED listening
       ELSE /\ ops' = Retire(o)
            /\ listening' = TRUE
            /\ UNCHANGED app
    /\ UNCHANGED <<wallet, ledger>>

\* init: eth_accounts rejects; init throws and registers nothing
InitAccountsReject(o) ==
    /\ o \in InFlight /\ o.fn = "init" /\ o.pc = "eth_accounts"
    /\ ops' = Retire(o)
    /\ UNCHANGED <<app, wallet, listening, ledger>>

\* the Connect button (shown without an account, disabled while loading)
ConnectClick ==
    /\ app.account = 0 /\ ~app.isLoading
    /\ BagCardinality(ops) < MaxOps
    /\ app' = [app EXCEPT !.isLoading = TRUE, !.error = ""]
    /\ ops' = Spawn(Op("connectWallet", "signer", 0, "", ""))
    /\ UNCHANGED <<wallet, listening, ledger>>

\* variant: the return for an unsupported network leaves isLoading set
ConnectSigner_returnsLoading(o) ==
    /\ o \in InFlight /\ o.fn = "connectWallet" /\ o.pc = "signer"
    /\ wallet.account # 0
    /\ IF wallet.chain \notin Supported
       THEN /\ app' = [app EXCEPT !.currentNetwork = wallet.chain,
                                  !.error = "Please switch"]
            /\ Finish(o)
       ELSE /\ app' = [app EXCEPT !.currentNetwork = wallet.chain,
                                  !.account = wallet.account,
                                  !.contract = wallet.account]
            /\ ops' = Move(o, [o EXCEPT !.pc = "hasVoted", !.addr = wallet.account])
            /\ UNCHANGED listening
    /\ UNCHANGED <<wallet, ledger>>

\* connectWallet: the requests up to getNetwork have resolved (lines 80-101)
ConnectSigner(o) ==
    /\ o \in InFlight /\ o.fn = "connectWallet" /\ o.pc = "signer"
    /\ wallet.account # 0
    /\ IF wallet.chain \notin Supported
       THEN /\ app' = [app EXCEPT !.currentNetwork = wallet.chain,
                                  !.error = "Please switch",
                                  !.isLoading = FALSE]
            /\ Finish(o)
       ELSE /\ app' = [app EXCEPT !.currentNetwork = wallet.chain,
                                  !.account = wallet.account,
                                  !.contract = wallet.account]
            /\ ops' = Move(o, [o EXCEPT !.pc = "hasVoted", !.addr = wallet.account])
            /\ UNCHANGED listening
    /\ UNCHANGED <<wallet, ledger>>

\* connectWallet: a request rejects (lines 108-113)
ConnectReject(o) ==
    /\ o \in InFlight /\ o.fn = "connectWallet" /\ o.pc \in {"signer", "hasVoted"}
    /\ app' = [app EXCEPT !.error = "Connection error", !.isLoading = FALSE]
    /\ Finish(o)
    /\ UNCHANGED <<wallet, ledger>>

\* connectWallet: hasVoted(addr) resolves; fetchVotes is called (lines 104-107, 118)
ConnectHasVoted(o) ==
    /\ o \in InFlight /\ o.fn = "connectWallet" /\ o.pc = "hasVoted"
    /\ app' = [app EXCEPT !.hasVoted = hasVotedGetter(o.addr), !.isLoading = TRUE]
    /\ ops' = Move(o, Fetching(o))
    /\ UNCHANGED <<wallet, listening, ledger>>

\* fetchVotes: the reads have resolved; its finally and its caller's finally run
FetchResolve(o) ==
    /\ o \in InFlight /\ o.pc = "fetchVotes"
    /\ app' = [app EXCEPT !.isLoading = FALSE]
    /\ Finish(o)
    /\ UNCHANGED <<wallet, ledger>>

\* fetchVotes: a read rejects (lines 124-128)
FetchReject(o) ==
    /\ o \in InFlight /\ o.pc = "fetchVotes"
    /\ app' = [app EXCEPT !.error = "Failed to fetch votes", !.isLoading = FALSE]
    /\ Finish(o)
    /\ UNCHANGED <<wallet, ledger>>

\* the disabled attribute of the Submit Vote button (line 412), negated
VoteButtonEnabled ==
    /\ app.selectedCandidate # ""
    /\ app.account # 0
    /\ app.currentNetwork \in Supported
    /\ ~app.isLoading
    /\ ~app.hasVoted

\* variant: setIsLoading(true) moved above the three checks
AppVote_loadingFirst ==
    /\ VoteButtonEnabled
    /\ IF app.selectedCandidate = ""
       THEN app' = [app EXCEPT !.isLoading = TRUE,
                               !.error = "Please select a candidate"] /\ UNCHANGED ops
       ELSE IF app.contract = 0
       THEN app' = [app EXCEPT !.isLoading = TRUE,
                               !.error = "Contract not connected"] /\ UNCHANGED ops
       ELSE IF app.hasVoted
       THEN app' = [app EXCEPT !.isLoading = TRUE,
                               !.error = "You have already voted!"] /\ UNCHANGED ops
       ELSE /\ BagCardinality(ops) < MaxOps
            /\ app' = [app EXCEPT !.isLoading = TRUE, !.error = ""]
            /\ ops' = Spawn(Op("vote", "submit", app.contract, app.selectedCandidate, ""))
    /\ UNCHANGED <<wallet, listening, ledger>>

\* vote() up to its first await (lines 131-149), run by a click on the Submit
\* Vote button
AppVote ==
    /\ VoteButtonEnabled
    /\ IF app.selectedCandidate = ""
       THEN app' = [app EXCEPT !.error = "Please select a candidate"] /\ UNCHANGED ops
       ELSE IF app.contract = 0
       THEN app' = [app EXCEPT !.error = "Contract not connected"] /\ UNCHANGED ops
       ELSE IF app.hasVoted
       THEN app' = [app EXCEPT !.error = "You have already voted!"] /\ UNCHANGED ops
       ELSE /\ BagCardinality(ops) < MaxOps
            /\ app' = [app EXCEPT !.isLoading = TRUE, !.error = ""]
            /\ ops' = Spawn(Op("vote", "submit", app.contract, app.selectedCandidate, ""))
    /\ UNCHANGED <<wallet, listening, ledger>>

\* variant: the vote is shown as recorded as soon as it is submitted
VoteSubmitResolve_optimistic(o) ==
    /\ o \in InFlight /\ o.fn = "vote" /\ o.pc = "submit"
    /\ wallet.account = o.addr
    /\ PendingTotal < MaxPending
    /\ pending' = [pending EXCEPT ![<<o.addr, o.cand>>] = @ + 1]
    /\ ops' = Move(o, [o EXCEPT !.pc = "wait"])
    /\ app' = [app EXCEPT !.hasVoted = TRUE]
    /\ UNCHANGED <<deployed, admin, hasVoted, votes, candidates, deployArgs, last,
                   accepted, acceptedFor, wallet, listening>>

\* vote: contract.vote resolves: the wallet has signed for the signer's account
\* and the transaction is in the pool (line 149)
VoteSubmitResolve(o) ==
    /\ o \in InFlight /\ o.fn = "vote" /\ o.pc = "submit"
    /\ wallet.account = o.addr
    /\ PendingTotal < MaxPending
    /\ pending' = [pending EXCEPT ![<<o.addr, o.cand>>] = @ + 1]
    /\ ops' = Move(o, [o EXCEPT !.pc = "wait"])
    /\ UNCHANGED <<deployed, admin, hasVoted, votes, candidates, deployArgs, last,
                   accepted, acceptedFor, app, wallet, listening>>

\* vote: contract.vote rejects, or tx.wait rejects with the receipt of a
\* reverted transaction (lines 153-157)
VoteReject(o) ==
    /\ o \in InFlight /\ o.fn = "vote" /\ o.pc \in {"submit", "reverted"}
    /\ app' = [app EXCEPT !.error = "Voting failed", !.isLoading = FALSE]
    /\ ops' = Retire(o)
    /\ UNCHANGED <<wallet, listening, ledger>>

\* the chain executes a pending vote transaction; a vote operation of the
\* client waiting for it gets its receipt
MineVote(sender, candidate) ==
    /\ pending[<<sender, candidate>>] > 0
    /\ pending' = [pending EXCEPT ![<<sender, candidate>>] = @ - 1]
    /\ LET r == vote(sender, candidate)
           w == Op("vote", "wait", sender, candidate, "")
       IN  /\ admin' = r.store.admin
           /\ hasVoted' = r.store.hasVoted
           /\ votes' = r.store.votes
           /\ candidates' = r.store.candidates
           /\ accepted' = IF r.status = "ok"
                          THEN [accepted EXCEPT ![sender] = @ + 1] ELSE accepted
           /\ acceptedFor' = IF r.status = "ok"
                             THEN [acceptedFor EXCEPT ![candidate] = @ + 1] ELSE acceptedFor
           /\ ops' = IF w \in InFlight THEN Move(w, Mined(r.status)) ELSE ops
    /\ UNCHANGED <<deployed, deployArgs, last, app, wallet, listening>>

\* vote: tx.wait resolves; fetchVotes is called (lines 150-152, 118)
VoteConfirmed(o) ==
    /\ o \in InFlight /\ o.fn = "vote" /\ o.pc = "confirmed"
    /\ app' = [app EXCEPT !.hasVoted = TRUE, !.isLoading = TRUE]
    /\ ops' = Move(o, Fetching(o))
    /\ UNCHANGED <<wallet, listening, ledger>>

\* the wallet exposes another account, or none; the accountsChanged handler
\* (lines 44-52) runs when registered
AccountsChanged(a) ==
    /\ a # wallet.account
    /\ wallet' = [wallet EXCEPT !.account = a]
    /\ IF ~listening THEN UNCHANGED <<app, ops>>
       ELSE IF a = 0
       THEN /\ app' = [app EXCEPT !.account = 0, !.contract = 0]
            /\ UNCHANGED ops
       ELSE /\ BagCardinality(ops) < MaxOps
            /\ app' = [app EXCEPT !.account = a, !.isLoading = TRUE, !.error = ""]
            /\ ops' = Spawn(Op("connectWallet", "signer", 0, "", ""))
    /\ UNCHANGED <<listening, ledger>>

\* disconnectWallet (lines 230-237), behind the Disconnect button
DisconnectWallet ==
    /\ app.account # 0
    /\ app' = [app EXCEPT !.account = 0, !.contract = 0, !.currentNetwork = "",
                          !.selectedCandidate = "", !.hasVoted = FALSE]
    /\ UNCHANGED <<wallet, ops, listening, ledger>>

\* the candidate select (lines 396-407), with its disabled attribute
SelectCandidate(c) ==
    /\ app.account # 0 /\ ~app.isLoading /\ ~app.hasVoted
    /\ app.currentNetwork \in Supported
    /\ c # app.selectedCandidate
    /\ app' = [app EXCEPT !.selectedCandidate = c]
    /\ UNCHANGED <<wallet, ops, listening, ledger>>

NextClient ==
    \/ \E o \in InFlight : InitAccountsResolve(o)
    \/ \E o \in InFlight : InitAccountsReject(o)
    \/ ConnectClick
    \/ \E o \in InFlight : ConnectSigner(o)
    \/ \E o \in InFlight : ConnectReject(o)
    \/ \E o \in InFlight : ConnectHasVoted(o)
    \/ \E o \in InFlight : FetchResolve(o)
    \/ \E o \in InFlight : FetchReject(o)
    \/ AppVote
    \/ \E o \in InFlight : VoteSubmitResolve(o)
    \/ \E o \in InFlight : VoteReject(o)
    \/ \E s \in Voters, c \in Names : MineVote(s, c)
    \/ \E o \in InFlight : VoteConfirmed(o)
    \/ \E a \in Accounts \cup {0} : AccountsChanged(a)
    \/ DisconnectWallet
    \/ \E c \in Names \cup {""} : SelectCandidate(c)

SpecClient == InitClient /\ [][NextClient]_vars

\* a request in flight resolves or rejects, or the chain executes a transaction
Settle ==
    \/ \E o \in InFlight :
          \/ InitAccountsResolve(o) \/ InitAccountsReject(o)
          \/ ConnectSigner(o) \/ ConnectReject(o) \/ ConnectHasVoted(o)
          \/ FetchResolve(o) \/ FetchReject(o)
          \/ VoteSubmitResolve(o) \/ VoteReject(o) \/ VoteConfirmed(o)
    \/ \E s \in Voters, c \in Names : MineVote(s, c)

\* the client where no request stays unanswered for ever
SpecClientFair == SpecClient /\ WF_vars(Settle)

\* ------------------------------------------------------------ properties

\* the names that occur in the stored candidate list
CandidateSet == {candidates[i] : i \in DOMAIN candidates}

\* this step executes a pending vote transaction of sender v naming c
Executed(v, c) == pending'[<<v, c>>] = pending[<<v, c>>] - 1

\* C1: per voter at most one vote is ever accepted: hasVoted[v] starts false,
\* turns true only in a step that executes an accepted vote of v, and never
\* turns false again.
C1_OneVotePerVoter ==
    /\ \A v \in Voters : ~hasVoted[v]
    /\ [](\A v \in Voters : accepted[v] <= 1)
    /\ [][\A v \in Voters :
            /\ hasVoted[v] => hasVoted'[v]
            /\ (~hasVoted[v] /\ hasVoted'[v]) =>
                   /\ \E c \in Names : Executed(v, c)
                   /\ last'.op = "vote" /\ last'.sender = v /\ last'.status = "ok"
                   /\ accepted'[v] = accepted[v] + 1]_vars

\* C1 witness: a voter whose vote was accepted has just had a further vote rejected
C1_Witness ==
    \E v \in Voters :
        /\ hasVoted[v] /\ accepted[v] = 1
        /\ last.op = "vote" /\ last.sender = v /\ last.status = AlreadyVoted

\* C2: once a vote of v has been accepted, every later vote of v reverts with
\* "Already voted!" whatever name it carries, and changes no tally.
C2_LaterVotesRejected ==
    [][\A v \in Voters, c \in Names :
          (Executed(v, c) /\ accepted[v] >= 1) =>
              /\ last'.op = "vote" /\ last'.sender = v /\ last'.name = c
              /\ last'.status = AlreadyVoted
              /\ votes' = votes]_vars

\* C2 witness: a voter who has voted is rejected with "Already voted!" on a
\* name that is not a candidate
C2_Witness ==
    /\ last.op = "vote" /\ last.status = AlreadyVoted
    /\ accepted[last.sender] = 1
    /\ last.name \notin CandidateSet

\* C3 as stated: for any voter, a vote naming a non-candidate reverts with
\* "Invalid candidate!" and changes no tally and no flag.
C3_AsStated ==
    [][\A v \in Voters, c \in Names :
          (Executed(v, c) /\ c \notin CandidateSet) =>
              /\ last'.status = InvalidCandidate
              /\ votes' = votes /\ hasVoted' = hasVoted]_vars

\* C3 amended: a vote naming a non-candidate is never accepted and changes no
\* tally and no flag; it reverts with "Invalid candidate!" when the sender has
\* not voted yet, and with "Already voted!" when the sender has; an accepted
\* vote always names a member of the candidate list.
C3_InvalidCandidateRejected ==
    [][\A v \in Voters, c \in Names :
          /\ (Executed(v, c) /\ c \notin CandidateSet) =>
                 /\ last'.op = "vote" /\ last'.sender = v /\ last'.name = c
                 /\ last'.status = (IF hasVoted[v] THEN AlreadyVoted ELSE InvalidCandidate)
                 /\ votes' = votes /\ hasVoted' = hasVoted
          /\ (Executed(v, c) /\ last'.status = "ok") => c \in CandidateSet]_vars

\* C3 witness: a vote of a voter who has not voted was rejected as naming a
\* non-candidate, with a non-empty candidate list
C3_Witness ==
    /\ last.op = "vote" /\ last.status = InvalidCandidate
    /\ ~hasVoted[last.sender]
    /\ last.name \notin CandidateSet
    /\ candidates # <<>>

\* the sum of getVotes over the candidates (each name counted once)
TallySum ==
    LET RECURSIVE Sum(_)
        Sum(S) == IF S = {} THEN 0
                  ELSE LET n == CHOOSE x \in S : TRUE IN getVotes(n) + Sum(S \ {n})
    IN  Sum(CandidateSet)

\* C4: in every state the tallies of the candidates add up to the number of
\* voters whose vote was accepted, which is the number of voters flagged in
\* hasVoted.
C4_SumEqualsVoters ==
    /\ TallySum = Cardinality({v \in Voters : accepted[v] >= 1})
    /\ TallySum = Cardinality({v \in Voters : hasVoted[v]})

\* C4 witness: two votes were accepted and the last vote executed was rejected
C4_Witness ==
    /\ TallySum = 2
    /\ last.op = "vote" /\ last.status # "ok"

\* C5: an accepted vote of v for c is one step that adds one to the tally of c
\* and sets the flag of v, and changes no other tally, no other flag, not the
\* candidate list and not admin; what getVotes and hasVoted return always
\* reflects whole accepted votes.
C5_AcceptedVoteEffect ==
    /\ [][\A v \in Voters, c \in Names :
            (Executed(v, c) /\ last'.status = "ok") =>
                /\ ~hasVoted[v]
                /\ votes' = [votes EXCEPT ![c] = @ + 1]
                /\ hasVoted' = [hasVoted EXCEPT ![v] = TRUE]
                /\ candidates' = candidates
                /\ admin' = admin]_vars
    /\ [](last.op = "getVotes" => last.count = acceptedFor[last.name])
    /\ [](last.op = "hasVoted" => last.flag = (accepted[last.who] >= 1))

\* C5 witness: a vote was accepted while another name already had a tally and
\* another voter a flag
C5_Witness ==
    /\ last.op = "vote" /\ last.status = "ok"
    /\ \E n \in Names \ {last.name} : votes[n] >= 1
    /\ \E v \in Voters \ {last.sender} : hasVoted[v]

\* every pending vote of v names a candidate
PendingValid(v) == \A n \in Names : pending[<<v, n>>] > 0 => n \in CandidateSet

\* C6 as stated: of two votes of one voter that are pending together, both
\* naming candidates, the one executed first is accepted and raises the sum of
\* the tallies by one.
C6_AsStated ==
    [][\A v \in Voters, c \in Names :
          (Executed(v, c) /\ PendingOf(v) >= 2 /\ PendingValid(v)) =>
              /\ last'.status = "ok"
              /\ TallySum' = TallySum + 1]_vars

\* C6 amended: of two votes of one voter that are pending together, both naming
\* candidates, when the voter has no accepted vote yet the one the chain
\* executes first is accepted and raises the sum of the tallies by one; every
\* vote of the voter executed after that, and both of them when the voter had
\* voted before, reverts with "Already voted!" and leaves the sum unchanged.
C6_RaceOneAccepted ==
    /\ [](\A v \in Voters : accepted[v] <= 1)
    /\ [][\A v \in Voters, c \in Names :
            /\ (Executed(v, c) /\ PendingOf(v) >= 2 /\ PendingValid(v)) =>
                   IF accepted[v] = 0
                   THEN /\ last'.status = "ok"
                        /\ TallySum' = TallySum + 1
                        /\ accepted'[v] = 1
                   ELSE /\ last'.status = AlreadyVoted
                        /\ TallySum' = TallySum
            /\ (Executed(v, c) /\ accepted[v] >= 1) =>
                   /\ last'.status = AlreadyVoted
                   /\ TallySum' = TallySum
                   /\ accepted' = accepted]_vars

\* C6 witness: the vote just executed was rejected with "Already voted!"; it
\* names a candidate nobody has voted for, the call executed before it was the
\* accepted vote of the same sender, and no vote of the sender is pending now
C6_Witness ==
    /\ last.op = "vote" /\ last.status = AlreadyVoted
    /\ last.prev = "ok"
    /\ last.name \in CandidateSet /\ acceptedFor[last.name] = 0
    /\ accepted[last.sender] = 1
    /\ TallySum = 1
    /\ PendingOf(last.sender) = 0

\* C7: the candidate list is the list given to the constructor in every state
\* after deployment; no call changes it.
C7_CandidatesImmutable ==
    /\ [](deployed => candidates = deployArgs.candidates)
    /\ [][deployed => candidates' = candidates]_vars

\* C7 witness: after an accepted vote, a vote for an unknown name was rejected
\* and a list of two entries is still in place
C7_Witness ==
    /\ deployed /\ Len(candidates) = 2
    /\ TallySum >= 1
    /\ last.op = "vote" /\ last.status = InvalidCandidate

\* C8: getVotes of a name outside the candidate list is zero in every state,
\* and getVotes of a candidate is the number of accepted votes for it.
C8_TallyPerName ==
    \A n \in Names :
        /\ n \notin CandidateSet => getVotes(n) = 0
        /\ getVotes(n) = acceptedFor[n]
        /\ (last.op = "getVotes" /\ last.name = n) => last.count = acceptedFor[n]

\* C8 witness: getVotes of a non-candidate returned zero after votes were accepted
C8_Witness ==
    /\ last.op = "getVotes" /\ last.name \notin CandidateSet /\ last.count = 0
    /\ TallySum >= 1
    /\ \E n \in CandidateSet : getVotes(n) = acceptedFor[n] /\ acceptedFor[n] >= 1

\* C9: a vote rejected with "Invalid candidate!" leaves the flag of its sender
\* false, and a vote of a sender whose flag is false that names a candidate is
\* accepted, sets the flag and adds one to that candidate's tally; so a
\* rejected sender can still vote.
C9_RetryAfterInvalid ==
    [][\A v \in Voters, c \in Names :
          /\ (Executed(v, c) /\ last'.status = InvalidCandidate) =>
                 /\ ~hasVoted[v] /\ ~hasVoted'[v]
                 /\ accepted'[v] = 0
          /\ (Executed(v, c) /\ ~hasVoted[v] /\ c \in CandidateSet) =>
                 /\ last'.status = "ok"
                 /\ hasVoted'[v]
                 /\ getVotes(c)' = getVotes(c) + 1]_vars

\* C9 witness: a vote was accepted right after a vote of the same sender was
\* rejected with "Invalid candidate!"
C9_Witness ==
    /\ last.op = "vote" /\ last.status = "ok" /\ last.prev = InvalidCandidate
    /\ hasVoted[last.sender]
    /\ getVotes(last.name) >= 1

\* C10: right after the constructor, getVotes is zero for every name and
\* hasVoted is false for every address, the deployer included.
C10_FreshLedger ==
    last.op = "constructor" =>
        /\ \A n \in Names : getVotes(n) = 0
        /\ \A v \in Voters : ~hasVotedGetter(v)
        /\ admin = last.sender /\ ~hasVotedGetter(admin)

\* C10 witness: the constructor has just run with a non-empty list
C10_Witness ==
    /\ last.op = "constructor" /\ deployed
    /\ candidates # <<>>
    /\ admin \in Voters

\* C11: getVotes and the hasVoted getter are pure reads: a read step changes
\* nothing of the ledger, tallies and flags change only in an accepted vote, and
\* the value a read returned stays the value of the ledger until the chain
\* executes another call, so a repeated read returns the same.
C11_ReadsArePure ==
    /\ [][(last' # last /\ last'.op \in {"getVotes", "hasVoted"}) =>
             UNCHANGED <<deployed, admin, hasVoted, votes, candidates, pending>>]_vars
    /\ [][(votes' # votes \/ hasVoted' # hasVoted) =>
             (last'.op = "vote" /\ last'.status = "ok")]_vars
    /\ [][(last.op = "getVotes" /\ last'.op = "getVotes" /\ last'.name = last.name) =>
             last'.count = last.count]_vars
    /\ [](last.op = "getVotes" => last.count = votes[last.name])
    /\ [](last.op = "hasVoted" => last.flag = hasVoted[last.who])

\* C11 witness: getVotes returned a tally of one and a vote has been submitted since
C11_Witness ==
    /\ last.op = "getVotes" /\ last.count = 1
    /\ PendingTotal >= 1

\* C13: no step lowers a tally, and a step changes a tally by 0 or by 1.
C13_TallyMonotonic ==
    [][\A n \in Names : getVotes(n)' = getVotes(n) \/ getVotes(n)' = getVotes(n) + 1]_vars

\* C13 witness: a tally has been raised twice and the last vote was rejected
C13_Witness ==
    /\ \E n \in Names : getVotes(n) = 2
    /\ last.op = "vote" /\ last.status # "ok"

\* C14: a deployment with the empty list succeeds, and in such a ledger every
\* executed vote reverts with "Invalid candidate!", no flag is ever set and
\* every tally stays zero.
C14_EmptyListRejectsAll ==
    (deployed /\ deployArgs.candidates = <<>>) =>
        /\ candidates = <<>>
        /\ \A v \in Voters : ~hasVoted[v] /\ accepted[v] = 0
        /\ \A n \in Names : getVotes(n) = 0
        /\ last.op = "vote" => last.status = InvalidCandidate

\* C14 witness: in a ledger deployed with the empty list a vote was rejected
\* twice in a row for the same sender
C14_Witness ==
    /\ deployed /\ candidates = <<>>
    /\ last.op = "vote" /\ last.status = InvalidCandidate
    /\ last.prev = InvalidCandidate

\* the entries of the candidate list that hold name n
EntriesOf(n) == {i \in DOMAIN candidates : candidates[i] = n}

\* the sum of getVotes over the entries of the list that hold name n
EntrySum(n) == Cardinality(EntriesOf(n)) * getVotes(n)

\* C15 as stated: the accepted votes for a name are split across the entries
\* of the list that hold it: the counts of those entries add up to the number
\* of accepted votes for the name.
C15_AsStated ==
    \A n \in CandidateSet : EntrySum(n) = acceptedFor[n]

\* C15 amended: the tally is kept per name, not per entry: every entry of the
\* list, duplicates included, reads the whole number of accepted votes for its
\* name, and an accepted vote raises the name's tally by one however often the
\* name is listed.
C15_DuplicatesShareCount ==
    /\ [](\A i \in DOMAIN candidates : getVotes(candidates[i]) = acceptedFor[candidates[i]])
    /\ [][\A v \in Voters, c \in Names :
            (Executed(v, c) /\ last'.status = "ok") => getVotes(c)' = getVotes(c) + 1]_vars

\* C15 witness: a name listed twice has two accepted votes
C15_Witness ==
    \E n \in CandidateSet :
        /\ Cardinality(EntriesOf(n)) >= 2
        /\ acceptedFor[n] = 2 /\ getVotes(n) = 2

\* C16: admin is the sender of the deployment and never changes; the outcome
\* of a vote depends on the sender's flag and the name only, for admin as for
\* any other sender, and admin too has at most one accepted vote.
C16_AdminGatesNothing ==
    /\ [](deployed => admin = deployArgs.sender)
    /\ [][deployed => admin' = admin]_vars
    /\ [](deployed => accepted[admin] <= 1)
    /\ [][\A v \in Voters, c \in Names :
            Executed(v, c) =>
                /\ last'.status = (IF hasVoted[v] THEN AlreadyVoted
                                   ELSE IF c \in CandidateSet THEN "ok"
                                   ELSE InvalidCandidate)
                /\ votes' = (IF ~hasVoted[v] /\ c \in CandidateSet
                             THEN [votes EXCEPT ![c] = @ + 1] ELSE votes)]_vars

\* C16 witness: admin, whose vote was accepted, has been rejected with
\* "Already voted!", and another sender's vote was accepted too
C16_Witness ==
    /\ deployed
    /\ last.op = "vote" /\ last.sender = admin /\ last.status = AlreadyVoted
    /\ accepted[admin] = 1
    /\ \E v \in Voters \ {admin} : accepted[v] = 1

\* ------------------------------------------------------ claims on the client

\* the vote operation o of the client goes on to the await named pc
VoteGoesTo(o, pc) ==
    /\ o \in InFlight /\ o.fn = "vote" /\ o.pc # pc
    /\ ops' = Move(o, CASE pc = "fetchVotes" -> Fetching(o)
                         [] pc = "confirmed" -> Mined("ok")
                         [] pc = "reverted" -> Mined(InvalidCandidate)
                         [] OTHER -> [o EXCEPT !.pc = pc])

\* the vote operation o of the client ends in its catch block
VoteFails(o) ==
    /\ o \in InFlight /\ o.fn = "vote" /\ o.pc # "fetchVotes"
    /\ ops' = Retire(o)

\* C12: the client's vote operation gets its confirmation only from the
\* step in which the ledger accepts the transaction it has submitted; it sets
\* the local hasVoted flag, and goes on to re-fetch the tallies, only in the
\* step in which that confirmation resolves; no other step but connectWallet's
\* read of the ledger's flag sets the local flag; a vote operation that fails
\* leaves the local flag as it is and sets an error.
C12_RecordedAfterConfirmation ==
    [][/\ \A o \in InFlight :
            /\ VoteGoesTo(o, "confirmed")
                 => /\ o.pc = "wait"
                    /\ pending[<<o.addr, o.cand>>] > 0
                    /\ ~hasVoted[o.addr] /\ hasVoted'[o.addr]
                    /\ accepted'[o.addr] = accepted[o.addr] + 1
                    /\ votes'[o.cand] = votes[o.cand] + 1
            /\ VoteGoesTo(o, "fetchVotes")
                 => /\ o.pc = "confirmed"
                    /\ app'.hasVoted
            /\ (o.fn = "vote" /\ o.pc # "confirmed"
                  /\ (ops' = Retire(o) \/ \E pc \in {"wait", "confirmed", "reverted"} :
                                              VoteGoesTo(o, pc)))
                 => app'.hasVoted = app.hasVoted
            /\ VoteFails(o)
                 => /\ app'.hasVoted = app.hasVoted
                    /\ app'.error = "Voting failed"
       /\ (~app.hasVoted /\ app'.hasVoted)
            => \E o \in InFlight :
                  \/ VoteGoesTo(o, "fetchVotes")
                  \/ /\ o.fn = "connectWallet" /\ o.pc = "hasVoted"
                     /\ ops' = Move(o, Fetching(o))
                     /\ hasVoted[o.addr]
      ]_vars

\* a confirmed vote has just been recorded by the client, which re-fetches
C12_Witness ==
    \E o \in InFlight :
        /\ o.fn = "vote" /\ o.pc = "fetchVotes"
        /\ app.hasVoted /\ app.isLoading
        /\ app.account # 0 /\ hasVoted[app.account]
        /\ app.selectedCandidate \in Names /\ votes[app.selectedCandidate] = 1

\* C19: a call of the client's vote operation with no candidate selected, with
\* no contract handle, or with the local hasVoted flag set, starts no request,
\* sends the ledger nothing and changes nothing of the client but the error,
\* which it sets to the message of the first check that fails.
C19_TurnedAwayVoteOnlySetsError ==
    [][(AppVote /\ (app.selectedCandidate = "" \/ app.contract = 0 \/ app.hasVoted))
         => /\ UNCHANGED <<ops, ledger, wallet, listening>>
            /\ app'.isLoading = app.isLoading
            /\ app'.hasVoted = app.hasVoted
            /\ app' = [app EXCEPT !.error =
                          IF app.selectedCandidate = "" THEN "Please select a candidate"
                          ELSE IF app.contract = 0 THEN "Contract not connected"
                          ELSE "You have already voted!"]
      ]_vars

\* the button was enabled for an account without a contract handle, and vote
\* has turned the click away
C19_Witness ==
    /\ app.error = "Contract not connected"
    /\ app.account # 0 /\ app.contract = 0
    /\ ~app.isLoading /\ ~app.hasVoted
    /\ ops = EmptyBag

\* an operation that sets isLoading is awaiting a response
Awaiting == \E o \in InFlight : o.fn \in {"connectWallet", "vote"}

\* C17, as stated: the client's hasVoted flag is set only if the ledger's flag
\* of the account the client displays is set.
C17_AsStated ==
    (app.hasVoted /\ app.account # 0) => hasVoted[app.account]

\* C18, as stated: isLoading is set whenever an operation of the client awaits
\* a response, and the Submit Vote button is disabled while a vote is in flight.
C18_AsStated ==
    /\ Awaiting => app.isLoading
    /\ (\E o \in InFlight : o.fn = "vote") => ~VoteButtonEnabled

\* C20: when every request is answered in the end, the client that is loading
\* stops loading; the operation that returns last, by whichever path, leaves
\* isLoading false, so the client is never loading with no request outstanding.
C20_LoadingEnds ==
    /\ [](~Awaiting => ~app.isLoading)
    /\ [][\A o \in InFlight :
            (o.fn \in {"connectWallet", "vote"} /\ ops' = Retire(o))
               => ~app'.isLoading]_vars
    /\ (app.isLoading ~> ~app.isLoading)

\* connectWallet has returned early on an unsupported network, nothing is
\* outstanding and the client is not loading
C20_Witness ==
    /\ ops = EmptyBag /\ ~app.isLoading
    /\ app.currentNetwork = "0x1" /\ app.error = "Please switch"

====
